---- MODULE Spec2Model ----
(***************************************************************************)
(* Scoring refresh and ranking pipeline of the hackathon leaderboard:      *)
(* the refresh endpoint (GET/POST), handleRefresh with its batched         *)
(* analyses, analyzeRepo / getAIScores, and the score store (getScores,    *)
(* saveScores, updateScore, addCommentary).                                *)
(***************************************************************************)
EXTENDS Integers, Sequences, FiniteSets, TLC

(***************************************************************************)
(* Bounds of the model.                                                    *)
(***************************************************************************)
\* refresh passes that may be started in one run
MaxPasses == 2
\* team analyses that may be started in one run, all passes together
MaxAnalyses == 6
\* POST /api/analyze requests that may be analysed in one run
MaxAnalyzeCalls == 1
\* store calls that may report an error in one run
MaxDbErrors == 1
\* addCommentary calls on a buffer before it is cleared
MaxAppends == 60
\* events announced with generateHypeCommentary in one run
MaxEvents == 2
\* files in a file tree handed to estimateLinesOfCode
MaxEstimateFiles == 2
\* largest byte total handed to estimateLinesOfCode
MaxBytes == 2600
\* files in a file tree handed to fetchKeyFiles
MaxTreeLen == 6
\* teams that join the photo-booth queue in one run
MaxQueue == 2
\* reloads of one booth page in one run
MaxReloads == 1

(***************************************************************************)
(* Program constants.                                                      *)
(***************************************************************************)
batchSize == 5
MaxCommentary == 50
UUIDBase == 100
NoRank == 0

Min(a, b) == IF a < b THEN a ELSE b
Max(a, b) == IF a > b THEN a ELSE b

\* uuidv5(teamId, namespace): a hash of the team id into the UUID space;
\* its value is never the team id itself and distinct ids give distinct UUIDs.
\* the team id used as the row id, without hashing
teamIdAsRowId(teamId) == teamId

teamIdToUUID(teamId) == UUIDBase + teamId

(***************************************************************************)
(* Inputs: rosters (data/repos.json), deployments, outcomes of the         *)
(* external calls.                                                         *)
(***************************************************************************)
Rosters == { <<1>>, <<1, 2>>, <<1, 2, 3, 4, 5, 6>> }

\* JSON objects the LLM may reply with, by name.  A field the reply lacks
\* is absent from the function's domain.
Replies == { "A", "B" }
Reply(name) ==
    CASE name = "A" -> [problem |-> 4, solution |-> 4, execution |-> 3, commentary |-> "llm"]
      [] name = "B" -> [problem |-> 9, execution |-> 4]

\* Outcome of one analysis: what the repository metadata call did ("throw":
\* malformed URL or network error, "404": not found, "ok") and what the
\* scoring call did ("fail": threw or no JSON, or the name of a parsed reply).
OutThrow == [fetch |-> "throw", ai |-> "fail"]
Outcomes ==
    { OutThrow,
      [fetch |-> "404", ai |-> "A"],
      [fetch |-> "ok", ai |-> "fail"],
      [fetch |-> "ok", ai |-> "A"],
      [fetch |-> "ok", ai |-> "B"] }
\* A roster of one team enumerates every outcome; a roster of several teams
\* in one batch the thrown fetch and the two replies; a roster longer than one
\* batch the thrown fetch and the repository that is not found.
SmallRosterOutcomes ==
    { OutThrow,
      [fetch |-> "ok", ai |-> "A"],
      [fetch |-> "ok", ai |-> "B"] }
BigRosterOutcomes ==
    { OutThrow,
      [fetch |-> "404", ai |-> "A"] }
OutcomesFor(teams) ==
    IF Len(teams) = 1 THEN Outcomes
    ELSE IF Len(teams) <= batchSize THEN SmallRosterOutcomes
    ELSE BigRosterOutcomes

\* Bodies of POST /api/analyze: the team, and the fields the body carries.
\* Team 7 is in no roster.
AnalyzeTeams == { 1, 7 }
Bodies ==
    { [ teamId |-> t, fields |-> { "teamId", "teamName", "repo", "track" } ] :
        t \in AnalyzeTeams }
    \cup { [ teamId |-> 1, fields |-> { "teamId", "teamName", "repo" } ] }

AuthHeaders == { "absent", "match", "wrong" }
Methods == { "GET", "POST" }

(***************************************************************************)
(* lib/github.ts                                                           *)
(***************************************************************************)
\* The snapshot as far as the pipeline uses it: number of code files, number
\* of files, total byte size.  A 404 on the metadata call leaves the default
\* branch "main" and size 0, and the sub-fetches of a repository that does
\* not exist degrade to an empty tree.
fetchRepoInfo(fetch) ==
    IF fetch = "404"
    THEN [codeFiles |-> 0, totalFiles |-> 0, totalSize |-> 0]
    ELSE [codeFiles |-> 2, totalFiles |-> 3, totalSize |-> 6000]

\* A path of the recursive git tree, split at its last "/" and its last ".":
\* "src/index.ts" is [dir |-> "src/", base |-> "index", ext |-> ".ts"].
FilePaths ==
    { [dir |-> "",      base |-> "README",  ext |-> ".md"],
      [dir |-> "src/",  base |-> "index",   ext |-> ".ts"],
      [dir |-> "",      base |-> "main",    ext |-> ".py"],
      [dir |-> "web/",  base |-> "package", ext |-> ".json"],
      [dir |-> "app/",  base |-> "page",    ext |-> ".tsx"],
      [dir |-> "",      base |-> "Cargo",   ext |-> ".toml"],
      [dir |-> "docs/", base |-> "README",  ext |-> ".md"] }

codeExtensions ==
    { ".ts", ".tsx", ".js", ".jsx", ".py", ".rs", ".go", ".java", ".cpp", ".c",
      ".h", ".css", ".scss", ".html", ".vue", ".svelte" }

\* path.endsWith(ext), ext being a "." followed by letters
EndsWith(path, ext) == path.ext = ext

\* fileTree.filter(path => codeExtensions.some(ext => path.endsWith(ext)))
codeFilesOf(fileTree) ==
    SelectSeq(fileTree, LAMBDA path : \E ext \in codeExtensions : EndsWith(path, ext))

\* the estimate without its minimum
estimateLinesOfCodeNoMinimum(codeFiles, totalFiles, totalSize) ==
    LET files == Max(totalFiles, 1)
    IN  (2 * totalSize * codeFiles + 25 * files) \div (50 * files)

\* the minimum applied to a repository of size 0 only
estimateLinesOfCodeMinimumWhenEmpty(codeFiles, totalFiles, totalSize) ==
    IF totalSize = 0
    THEN codeFiles * 50
    ELSE estimateLinesOfCodeNoMinimum(codeFiles, totalFiles, totalSize)

estimateLinesOfCode(codeFiles, totalFiles, totalSize) ==
    LET files == Max(totalFiles, 1)
        \* Math.round(totalSize * (codeFiles / files) / 25), half rounds up
        estimatedLines == (2 * totalSize * codeFiles + 25 * files) \div (50 * files)
    IN  Max(estimatedLines, codeFiles * 50)

\* estimateLinesOfCode(fileTree, totalSize) on a file tree
estimateTree(fileTree, totalSize) ==
    estimateLinesOfCode(Len(codeFilesOf(fileTree)), Len(fileTree), totalSize)

TsLike == { ".ts", ".tsx", ".js", ".jsx" }
TsOrPy == TsLike \cup { ".py" }

\* The regular expressions of fetchKeyFiles in their order.  A pattern that
\* starts with ^ fixes the directory; README.md is matched ignoring case.
priorityPatterns ==
    << [anchored |-> TRUE,  ignoreCase |-> TRUE,  dir |-> "",     base |-> "readme",       exts |-> { ".md" }],
       [anchored |-> TRUE,  ignoreCase |-> FALSE, dir |-> "src/", base |-> "index",        exts |-> TsLike],
       [anchored |-> TRUE,  ignoreCase |-> FALSE, dir |-> "src/", base |-> "app",          exts |-> TsLike],
       [anchored |-> TRUE,  ignoreCase |-> FALSE, dir |-> "src/", base |-> "main",         exts |-> TsOrPy],
       [anchored |-> TRUE,  ignoreCase |-> FALSE, dir |-> "app/", base |-> "page",         exts |-> TsLike],
       [anchored |-> TRUE,  ignoreCase |-> FALSE, dir |-> "app/", base |-> "layout",       exts |-> TsLike],
       [anchored |-> TRUE,  ignoreCase |-> FALSE, dir |-> "",     base |-> "index",        exts |-> TsOrPy],
       [anchored |-> TRUE,  ignoreCase |-> FALSE, dir |-> "",     base |-> "main",         exts |-> TsOrPy],
       [anchored |-> TRUE,  ignoreCase |-> FALSE, dir |-> "",     base |-> "app",          exts |-> TsOrPy],
       [anchored |-> FALSE, ignoreCase |-> FALSE, dir |-> "",     base |-> "package",      exts |-> { ".json" }],
       [anchored |-> FALSE, ignoreCase |-> FALSE, dir |-> "",     base |-> "requirements", exts |-> { ".txt" }],
       [anchored |-> FALSE, ignoreCase |-> FALSE, dir |-> "",     base |-> "Cargo",        exts |-> { ".toml" }],
       [anchored |-> FALSE, ignoreCase |-> FALSE, dir |-> "",     base |-> "pyproject",    exts |-> { ".toml" }] >>

LowerCase(word) == IF word \in { "README", "Readme", "ReadMe" } THEN "readme" ELSE word

\* pattern.test(path)
Test(pattern, path) ==
    /\ pattern.anchored => path.dir = pattern.dir
    /\ IF pattern.ignoreCase
       THEN LowerCase(path.base) = pattern.base
       ELSE path.base = pattern.base
    /\ path.ext \in pattern.exts

\* the first n elements of a list
Slice(list, n) == SubSeq(list, 1, Min(Len(list), n))

MatchesSomePattern(path) ==
    \E i \in 1..Len(priorityPatterns) : Test(priorityPatterns[i], path)

\* fileTree.filter(path => priorityPatterns.some(...)).slice(0, 5)
keyFilePaths(fileTree) ==
    Slice(SelectSeq(fileTree, MatchesSomePattern), 5)

\* The files whose content was fetched, in the order of keyFilePaths; a file
\* whose fetch fails is skipped.
fetchKeyFiles(fileTree, failing) ==
    SelectSeq(keyFilePaths(fileTree), LAMBDA path : path \notin failing)

(***************************************************************************)
(* lib/analyzer.ts                                                         *)
(***************************************************************************)
\* parsed.field || 3 : an absent field and 0 are falsy
OrThree(parsed, field) ==
    IF field \in DOMAIN parsed /\ parsed[field] # 0 THEN parsed[field] ELSE 3

getAIScores(parsed) ==
    [ problem    |-> Min(5, Max(1, OrThree(parsed, "problem"))),
      solution   |-> Min(5, Max(1, OrThree(parsed, "solution"))),
      execution  |-> Min(5, Max(1, OrThree(parsed, "execution"))),
      total      |-> OrThree(parsed, "problem") + OrThree(parsed, "solution")
                       + OrThree(parsed, "execution"),
      commentary |-> IF "commentary" \in DOMAIN parsed
                     THEN parsed["commentary"] ELSE "making_moves" ]

createPlaceholderScore(teamId, now) ==
    [ teamId |-> teamId, problem |-> 0, solution |-> 0, execution |-> 0,
      total |-> 0, linesOfCode |-> 0, commentary |-> "waiting",
      lastUpdated |-> now, previousRank |-> NoRank, currentRank |-> NoRank ]

Thrown == [error |-> "analysis"]
IsThrown(r) == "error" \in DOMAIN r

\* analyzeRepo with fetchRepoInfo's error escaping instead of being caught
analyzeRepoUncaught(teamId, outcome, now) ==
    IF outcome.fetch = "throw"
    THEN Thrown
    ELSE LET repoInfo == fetchRepoInfo(outcome.fetch)
             scores == IF outcome.ai = "fail"
                       THEN [problem |-> 3, solution |-> 3, execution |-> 3,
                             total |-> 9, commentary |-> "cooking"]
                       ELSE getAIScores(Reply(outcome.ai))
         IN  [ teamId |-> teamId, problem |-> scores.problem,
               solution |-> scores.solution, execution |-> scores.execution,
               total |-> scores.total,
               linesOfCode |-> estimateLinesOfCode(repoInfo.codeFiles,
                                   repoInfo.totalFiles, repoInfo.totalSize),
               commentary |-> scores.commentary, lastUpdated |-> now,
               previousRank |-> NoRank, currentRank |-> NoRank ]

\* analyzeRepo answering a failed scoring attempt like a failed fetch, with
\* the placeholder
analyzeRepoZeroOnScoringFailure(teamId, outcome, now) ==
    IF outcome.fetch = "throw" \/ outcome.ai = "fail"
    THEN createPlaceholderScore(teamId, now)
    ELSE LET repoInfo == fetchRepoInfo(outcome.fetch)
             scores == getAIScores(Reply(outcome.ai))
         IN  [ teamId |-> teamId, problem |-> scores.problem,
               solution |-> scores.solution, execution |-> scores.execution,
               total |-> scores.total,
               linesOfCode |-> estimateLinesOfCode(repoInfo.codeFiles,
                                   repoInfo.totalFiles, repoInfo.totalSize),
               commentary |-> scores.commentary, lastUpdated |-> now,
               previousRank |-> NoRank, currentRank |-> NoRank ]

analyzeRepo(teamId, outcome, now) ==
    IF outcome.fetch = "throw"
    THEN createPlaceholderScore(teamId, now)
    ELSE LET repoInfo == fetchRepoInfo(outcome.fetch)
             linesOfCode == estimateLinesOfCode(repoInfo.codeFiles,
                                repoInfo.totalFiles, repoInfo.totalSize)
             scores == IF outcome.ai = "fail"
                       THEN [problem |-> 3, solution |-> 3, execution |-> 3,
                             total |-> 9, commentary |-> "cooking"]
                       ELSE getAIScores(Reply(outcome.ai))
         IN  [ teamId |-> teamId, problem |-> scores.problem,
               solution |-> scores.solution, execution |-> scores.execution,
               total |-> scores.total, linesOfCode |-> linesOfCode,
               commentary |-> scores.commentary, lastUpdated |-> now,
               previousRank |-> NoRank, currentRank |-> NoRank ]

\* the zero-score entry the instrumented handler substitutes for a team
\* whose analysis threw
failedTeamScore(teamId, now) ==
    [ teamId |-> teamId, problem |-> 0, solution |-> 0, execution |-> 0,
      total |-> 0, linesOfCode |-> 0, commentary |-> "analysis_failed",
      lastUpdated |-> now, previousRank |-> NoRank, currentRank |-> NoRank ]

(***************************************************************************)
(* State.                                                                  *)
(***************************************************************************)
VARIABLES
    config,            \* deployment: NODE_ENV, CRON_SECRET, handler variant, roster
    store,             \* rows of the "scores" table
    cachedCommentary,  \* lib/storage.ts: in-memory commentary, newest first
    pc,                \* position of the refresh pass
    request,           \* the refresh request being dispatched
    response,          \* the answer to the latest refresh / analyze request
    previousScores,    \* handleRefresh: const previousScores
    newScores,         \* handleRefresh: const newScores
    batchStart,        \* handleRefresh: loop variable i (0-based)
    inflight,          \* roster positions whose analysis is awaited by Promise.all
    batchResults,      \* roster position -> result, for the settled analyses
    saveIdx,           \* saveScores: loop variable i (1-based)
    noteIdx,           \* handleRefresh: position in the commentary loop (1-based)
    passes,            \* refresh passes started; also the clock of lastUpdated
    analyses,          \* team analyses started by refresh passes
    analyzeCalls,      \* team analyses started by POST /api/analyze
    dbErrors,          \* store calls that reported an error
    outcomeOf,         \* history: roster position -> outcome of its analysis in this pass
    passLog,           \* history: what this pass has done so far
    lastPass,          \* history: what the latest completed pass did and left behind
    appended,          \* history: addCommentary calls since the buffer was last empty
    shown,             \* the list the latest getCommentary call returned
    parsed,            \* getAIScores: const parsed, the reply under scoring
    aiScores,          \* getAIScores: the ScoreResult returned for parsed
    leaderboard,       \* GET /api/leaderboard: handler variant and what it reads from
    analyzeReq,        \* POST /api/analyze: handler variant and the request body
    hypeCall,          \* the latest generateHypeCommentary call and what it returned
    sizing,            \* an estimateLinesOfCode call on its own
    keyFiles,          \* a fetchKeyFiles call on its own
    boardRead,         \* GET /api/leaderboard during a write: what getScores returned and when
    queueTable,        \* the photo-booth table 'queue': the status of each item in join order
    boothClients       \* the open photo-booth pages: mode, queue state, timers, fetch due

\* the state outside the refresh pipeline: the commentary readers, the
\* scoring of a single reply, the leaderboard endpoint
libVars == << appended, shown, parsed, aiScores, leaderboard >>

vars == << config, store, cachedCommentary, pc, request, response, previousScores,
           newScores, batchStart, inflight, batchResults, saveIdx, noteIdx,
           passes, analyses, analyzeCalls, dbErrors, outcomeOf, passLog, lastPass,
           appended, shown, parsed, aiScores, leaderboard, analyzeReq,
           hypeCall,
           sizing,
           keyFiles,
           boardRead,
           queueTable,
           boothClients >>

\* the state of the parts that are specified on their own, each at rest
\* unless it is named in except
NoBody == [ json |-> "none", teamId |-> "missing", teamName |-> "missing",
            repo |-> "missing", track |-> "missing" ]
NoAnalyze == [ variant |-> "none", body |-> NoBody ]
NoHype == [ event |-> "none", team |-> 0, llm |-> "none", random |-> 0,
            result |-> [ kind |-> "none", team |-> 0, text |-> "" ] ]

NoSizing == [ fileTree |-> << >>, totalSize |-> 0, estimated |-> FALSE, lines |-> 0,
              grown |-> FALSE, smaller |-> 0, before |-> 0 ]
NoKeyFiles == [ fileTree |-> << >>, called |-> FALSE, failing |-> {},
                selected |-> << >>, fetched |-> << >> ]

NoBoardRead == [ read |-> FALSE, written |-> 0, of |-> 0, scores |-> << >> ]

NoQueue == << >>
NoClients == << >>

unitVars == << analyzeReq, hypeCall, sizing, keyFiles, boardRead, queueTable, boothClients >>

UnitsAtRestExcept(except) ==
    /\ IF "analyzeReq" \in except THEN TRUE ELSE analyzeReq = NoAnalyze
    /\ IF "hypeCall" \in except THEN TRUE ELSE hypeCall = NoHype
    /\ IF "sizing" \in except THEN TRUE ELSE sizing = NoSizing
    /\ IF "keyFiles" \in except THEN TRUE ELSE keyFiles = NoKeyFiles
    /\ IF "boardRead" \in except THEN TRUE ELSE boardRead = NoBoardRead
    /\ IF "queueTable" \in except THEN TRUE ELSE queueTable = NoQueue
    /\ IF "boothClients" \in except THEN TRUE ELSE boothClients = NoClients

UnitsUnchangedExcept(except) ==
    /\ IF "analyzeReq" \in except THEN TRUE ELSE UNCHANGED analyzeReq
    /\ IF "hypeCall" \in except THEN TRUE ELSE UNCHANGED hypeCall
    /\ IF "sizing" \in except THEN TRUE ELSE UNCHANGED sizing
    /\ IF "keyFiles" \in except THEN TRUE ELSE UNCHANGED keyFiles
    /\ IF "boardRead" \in except THEN TRUE ELSE UNCHANGED boardRead
    /\ IF "queueTable" \in except THEN TRUE ELSE UNCHANGED queueTable
    /\ IF "boothClients" \in except THEN TRUE ELSE UNCHANGED boothClients

teams == config.roster

NoRequest == [method |-> "none", header |-> "none"]
NoResponse == [from |-> "none", status |-> 0, success |-> FALSE, count |-> 0]

(***************************************************************************)
(* lib/storage.ts                                                          *)
(***************************************************************************)
\* .order('total', { ascending: false }): the orders of the rows by
\* descending total; the database leaves the order of rows with equal
\* totals unspecified, so each of them may come first
RECURSIVE OrderByTotalDesc(_)
OrderByTotalDesc(rows) ==
    IF rows = {} THEN { << >> }
    ELSE UNION { { << r >> \o rest : rest \in OrderByTotalDesc(rows \ {r}) } :
                 r \in { x \in rows : \A y \in rows : x.total >= y.total } }

\* the mapping with the 0-based index taken as the rank
RowToTeamScoreZeroBased(s, index) ==
    [ teamId |-> s.id, problem |-> s.problem, solution |-> s.solution,
      execution |-> s.execution, total |-> s.total,
      linesOfCode |-> s.lines_of_code, commentary |-> s.commentary,
      lastUpdated |-> s.last_updated, previousRank |-> NoRank,
      currentRank |-> index ]

\* the mapping of a row to the TeamScore interface, at 0-based index
RowToTeamScore(s, index) ==
    [ teamId |-> s.id, problem |-> s.problem, solution |-> s.solution,
      execution |-> s.execution, total |-> s.total,
      linesOfCode |-> s.lines_of_code, commentary |-> s.commentary,
      lastUpdated |-> s.last_updated, previousRank |-> NoRank,
      currentRank |-> index + 1 ]

\* the lists getScores may return for a table content
getScores(rows) ==
    { [ i \in 1..Len(o) |-> RowToTeamScore(o[i], i - 1) ] : o \in OrderByTotalDesc(rows) }

\* the payload saveScores and updateScore build for a record
Payload(score) ==
    [ id |-> teamIdToUUID(score.teamId), problem |-> score.problem,
      solution |-> score.solution, execution |-> score.execution,
      total |-> score.total, lines_of_code |-> score.linesOfCode,
      commentary |-> score.commentary, last_updated |-> score.lastUpdated ]

\* an insert that adds the payload as a further row, whatever rows exist
UpsertAppend(rows, payload) == rows \cup { payload }

\* .upsert(payload, { onConflict: 'id' })
Upsert(rows, payload) == { r \in rows : r.id # payload.id } \cup { payload }

\* [...scores].sort((a, b) => b.total - a.total): positions of scores in
\* descending order of total, equal totals in their order in scores (the
\* sort is stable); built by insertion.
RECURSIVE SortedPositions(_, _)
SortedPositions(scores, n) ==
    IF n = 0 THEN << >>
    ELSE LET prev == SortedPositions(scores, n - 1)
             \* n goes after every position whose total is >= its own
             k == Cardinality({ j \in 1..Len(prev) :
                                  scores[prev[j]].total >= scores[n].total })
         IN  SubSeq(prev, 1, k) \o << n >> \o SubSeq(prev, k + 1, Len(prev))

sortedScores(scores) == SortedPositions(scores, Len(scores))

\* getCommentary(limit): the first limit entries
getCommentary(buffer, limit) == SubSeq(buffer, 1, Min(limit, Len(buffer)))

\* the buffer cut to its last 50 entries instead of its first 50
addCommentaryKeepLast(buffer, message) ==
    LET grown == << message >> \o buffer
    IN  IF Len(grown) > MaxCommentary
        THEN SubSeq(grown, Len(grown) - MaxCommentary + 1, Len(grown))
        ELSE grown

\* addCommentary: unshift, then keep the first 50
addCommentary(buffer, message) ==
    LET grown == << message >> \o buffer
    IN  IF Len(grown) > MaxCommentary THEN SubSeq(grown, 1, MaxCommentary) ELSE grown

(***************************************************************************)
(* lib/analyzer.ts: generateHypeCommentary                                 *)
(***************************************************************************)
\* the four canned fallback strings
fallbacks == << "on_fire", "heating_up", "brewing", "eyes_on" >>

\* the function without its try / catch: a throwing completion call escapes
generateHypeCommentaryUncaught(event, teamId, llm, random) ==
    IF llm = "throws" THEN [ error |-> "commentary" ]
    ELSE [ kind |-> event, team |-> teamId,
           text |-> IF llm = "text" THEN "llm" ELSE fallbacks[random + 1] ]

\* llm: what the completion call did ("text": a reply with a text block,
\* "no_text": a reply without one, "throws"); random: the value of
\* Math.floor(Math.random() * fallbacks.length)
generateHypeCommentary(event, teamId, llm, random) ==
    [ kind |-> event, team |-> teamId,
      text |-> IF llm = "text" THEN "llm" ELSE fallbacks[random + 1] ]

(***************************************************************************)
(* Initial state: a deployment with an empty table and no commentary.      *)
(***************************************************************************)
\* Every roster in production with the secret configured, and for the
\* roster of one team also the instrumented handler, a deployment that is
\* not production and one without a secret.
Deployments ==
    [ production : {TRUE}, cronSecret : {TRUE}, variant : {"route"}, roster : Rosters ]
    \cup [ production : {TRUE}, cronSecret : {TRUE}, variant : {"instrumented"},
           roster : { <<1>> } ]
    \cup [ production : {FALSE}, cronSecret : {TRUE}, variant : {"route"},
           roster : { <<1>> } ]
    \cup [ production : {TRUE}, cronSecret : {FALSE}, variant : {"route"},
           roster : { <<1>> } ]

\* no reply under scoring, no ScoreResult, no leaderboard request in view
NoReply == [ none |-> TRUE ]
NoScores == [ none |-> TRUE ]
NoFile == [ state |-> "missing", scores |-> << >> ]
NoLeaderboard ==
    [ variant |-> "none", configured |-> TRUE, scoresFile |-> NoFile, dbError |-> FALSE ]

NoPass == [ ran |-> FALSE, clean |-> FALSE, scores |-> << >>, endStore |-> {} ]
NoLog == [ startStore |-> {}, errors |-> 0, rankChanges |-> {}, scoreUpdates |-> {} ]

Init ==
    /\ config \in Deployments
    /\ store = {}
    /\ cachedCommentary = << >>
    /\ pc = "idle"
    /\ request = NoRequest
    /\ response = NoResponse
    /\ previousScores = << >>
    /\ newScores = << >>
    /\ batchStart = 0
    /\ inflight = {}
    /\ batchResults = << >>
    /\ saveIdx = 1
    /\ noteIdx = 1
    /\ passes = 0
    /\ analyses = 0
    /\ analyzeCalls = 0
    /\ dbErrors = 0
    /\ outcomeOf = << >>
    /\ passLog = NoLog
    /\ lastPass = NoPass
    /\ appended = 0
    /\ shown = << >>
    /\ parsed = NoReply
    /\ aiScores = NoScores
    /\ leaderboard = NoLeaderboard
    /\ UnitsAtRestExcept({})


(***************************************************************************)
(* app/api/refresh/route.ts: GET and POST                                  *)
(***************************************************************************)
\* GET: process.env.CRON_SECRET && authHeader !== `Bearer ${CRON_SECRET}`,
\* and then NODE_ENV === 'production'.  POST calls handleRefresh directly.
Unauthorized(method, header) ==
    /\ method = "GET"
    /\ config.cronSecret
    /\ header # "match"
    /\ config.production

\* a request that is answered 401
RefreshRejected(method, header) ==
    /\ pc = "idle"
    /\ Unauthorized(method, header)
    /\ request' = [method |-> method, header |-> header]
    /\ response' = [from |-> "refresh", status |-> 401, success |-> FALSE, count |-> 0]
    /\ UNCHANGED << unitVars, libVars, config, store, cachedCommentary, pc, previousScores, newScores,
                    batchStart, inflight, batchResults, saveIdx, noteIdx, passes,
                    analyses, analyzeCalls, dbErrors, outcomeOf, passLog, lastPass >>

\* a request that enters handleRefresh
RefreshAccepted(method, header) ==
    /\ pc = "idle"
    /\ ~Unauthorized(method, header)
    /\ passes < MaxPasses
    /\ analyses + Len(teams) <= MaxAnalyses
    /\ request' = [method |-> method, header |-> header]
    /\ response' = NoResponse
    /\ pc' = "getScores"
    /\ passes' = passes + 1
    /\ analyses' = analyses + Len(teams)
    /\ previousScores' = << >>
    /\ newScores' = << >>
    /\ batchStart' = 0
    /\ inflight' = {}
    /\ batchResults' = << >>
    /\ saveIdx' = 1
    /\ noteIdx' = 1
    /\ outcomeOf' = << >>
    /\ passLog' = [ NoLog EXCEPT !.startStore = store, !.errors = dbErrors ]
    /\ UNCHANGED << unitVars, libVars, config, store, cachedCommentary, analyzeCalls, dbErrors, lastPass >>

(***************************************************************************)
(* handleRefresh                                                           *)
(***************************************************************************)
\* the read with getScores throwing on a store error: the pass ends in the
\* catch block
ReadPreviousThrows ==
    /\ pc = "getScores"
    /\ \/ /\ previousScores' \in getScores(store)
          /\ pc' = "loop"
          /\ UNCHANGED << dbErrors, response >>
       \/ /\ dbErrors < MaxDbErrors
          /\ previousScores' = << >>
          /\ dbErrors' = dbErrors + 1
          /\ pc' = "idle"
          /\ response' = [from |-> "refresh", status |-> 500, success |-> FALSE, count |-> 0]
    /\ request' = NoRequest
    /\ UNCHANGED << unitVars, libVars, config, store, cachedCommentary, newScores, batchStart,
                    inflight, batchResults, saveIdx, noteIdx, passes, analyses,
                    analyzeCalls, outcomeOf, passLog, lastPass >>

\* const previousScores = await getScores(); a store error gives []
ReadPrevious ==
    /\ pc = "getScores"
    /\ \/ /\ previousScores' \in getScores(store)
          /\ UNCHANGED dbErrors
       \/ /\ dbErrors < MaxDbErrors
          /\ previousScores' = << >>
          /\ dbErrors' = dbErrors + 1
    /\ pc' = "loop"
    /\ request' = NoRequest
    /\ UNCHANGED << unitVars, libVars, config, store, cachedCommentary, response, newScores, batchStart,
                    inflight, batchResults, saveIdx, noteIdx, passes, analyses,
                    analyzeCalls, outcomeOf, passLog, lastPass >>

\* teams.slice(i), the whole rest of the roster taken as one batch
BatchAll(i) == { k \in 1..Len(teams) : i < k }

\* teams.slice(i, i + batchSize), as roster positions
Batch(i) == { k \in 1..Len(teams) : i < k /\ k <= i + batchSize }

\* batch.map(team => analyzeRepo(...)): every analysis of the batch starts
StartBatch ==
    /\ pc = "loop"
    /\ batchStart < Len(teams)
    /\ inflight' = Batch(batchStart)
    /\ batchResults' = << >>
    /\ pc' = "await"
    /\ UNCHANGED << unitVars, libVars, config, store, cachedCommentary, request, response, previousScores,
                    newScores, batchStart, saveIdx, noteIdx, passes, analyses, analyzeCalls,
                    dbErrors, outcomeOf, passLog, lastPass >>

\* the answer of the catch block around the whole pass
FailedResponse(from) == [from |-> from, status |-> 500, success |-> FALSE, count |-> 0]

\* one analysis of the batch settles
CompleteAnalysis(k, outcome) ==
    /\ pc = "await"
    /\ k \in inflight
    /\ outcomeOf' = (k :> outcome) @@ outcomeOf
    /\ LET result == analyzeRepo(teams[k], outcome, passes)
       IN  IF ~IsThrown(result)
           THEN /\ batchResults' = (k :> result) @@ batchResults
                /\ inflight' = inflight \ {k}
                /\ UNCHANGED << pc, response >>
           ELSE IF config.variant = "instrumented"
           THEN \* the per-team catch substitutes a zero-score entry
                /\ batchResults' = (k :> failedTeamScore(teams[k], passes)) @@ batchResults
                /\ inflight' = inflight \ {k}
                /\ UNCHANGED << pc, response >>
           ELSE \* Promise.all rejects and the pass ends in the catch block
                /\ batchResults' = << >>
                /\ inflight' = {}
                /\ pc' = "idle"
                /\ response' = FailedResponse("refresh")
    /\ UNCHANGED << unitVars, libVars, config, store, cachedCommentary, request, previousScores, newScores,
                    batchStart, saveIdx, noteIdx, passes, analyses, analyzeCalls, dbErrors,
                    passLog, lastPass >>

\* the results of a batch, in roster order
RECURSIVE InOrder(_, _, _)
InOrder(results, from, to) ==
    IF from > to THEN << >>
    ELSE << results[from] >> \o InOrder(results, from + 1, to)

\* Promise.all resolves: newScores.push(...batchResults); i += batchSize
FinishBatch ==
    /\ pc = "await"
    /\ inflight = {}
    /\ newScores' = newScores \o InOrder(batchResults, batchStart + 1,
                                         Min(batchStart + batchSize, Len(teams)))
    /\ batchStart' = batchStart + batchSize
    /\ batchResults' = << >>
    /\ pc' = IF batchStart + batchSize < Len(teams) THEN "loop" ELSE "save"
    /\ UNCHANGED << unitVars, libVars, config, store, cachedCommentary, request, response, previousScores,
                    inflight, saveIdx, noteIdx, passes, analyses, analyzeCalls, dbErrors,
                    outcomeOf, passLog, lastPass >>

\* the iteration keeping the rank the record had in previousRank before it
\* assigns the new one
SaveRowKeepingOldRank ==
    /\ pc = "save"
    /\ LET k == sortedScores(newScores)[saveIdx]
           ranked == [ newScores EXCEPT ![k].previousRank = newScores[k].currentRank,
                                        ![k].currentRank = saveIdx ]
       IN  /\ newScores' = ranked
           /\ \/ /\ store' = Upsert(store, Payload(ranked[k]))
                 /\ UNCHANGED dbErrors
              \/ /\ dbErrors < MaxDbErrors
                 /\ dbErrors' = dbErrors + 1
                 /\ UNCHANGED store
    /\ saveIdx' = saveIdx + 1
    /\ pc' = IF saveIdx < Len(newScores) THEN "save" ELSE "commentary"
    /\ UNCHANGED << unitVars, libVars, config, cachedCommentary, request, response, previousScores,
                    batchStart, inflight, batchResults, noteIdx, passes, analyses,
                    analyzeCalls, outcomeOf, passLog, lastPass >>

\* the team's own commentary appended while its row is being written
SaveRowAnnouncing ==
    /\ pc = "save"
    /\ LET k == sortedScores(newScores)[saveIdx]
           ranked == [ newScores EXCEPT ![k].currentRank = saveIdx ]
       IN  /\ newScores' = ranked
           /\ cachedCommentary' =
                  IF ranked[k].commentary # "" /\ ranked[k].total > 0
                  THEN addCommentary(cachedCommentary,
                                     [ kind |-> "team", team |-> ranked[k].teamId,
                                       text |-> ranked[k].commentary ])
                  ELSE cachedCommentary
           /\ \/ /\ store' = Upsert(store, Payload(ranked[k]))
                 /\ UNCHANGED dbErrors
              \/ /\ dbErrors < MaxDbErrors
                 /\ dbErrors' = dbErrors + 1
                 /\ UNCHANGED store
    /\ saveIdx' = saveIdx + 1
    /\ pc' = IF saveIdx < Len(newScores) THEN "save" ELSE "commentary"
    /\ UNCHANGED << unitVars, libVars, config, request, response, previousScores,
                    batchStart, inflight, batchResults, noteIdx, passes, analyses,
                    analyzeCalls, outcomeOf, passLog, lastPass >>

\* saveScores, one iteration: score.currentRank = i + 1 and the upsert of the
\* row; an upsert error is logged and the loop goes on
SaveRow ==
    /\ pc = "save"
    /\ LET k == sortedScores(newScores)[saveIdx]
           ranked == [ newScores EXCEPT ![k].currentRank = saveIdx ]
       IN  /\ newScores' = ranked
           /\ \/ /\ store' = Upsert(store, Payload(ranked[k]))
                 /\ UNCHANGED dbErrors
              \/ /\ dbErrors < MaxDbErrors
                 /\ dbErrors' = dbErrors + 1
                 /\ UNCHANGED store
    /\ saveIdx' = saveIdx + 1
    /\ pc' = IF saveIdx < Len(newScores) THEN "save" ELSE "commentary"
    /\ UNCHANGED << unitVars, libVars, config, cachedCommentary, request, response, previousScores,
                    batchStart, inflight, batchResults, noteIdx, passes, analyses,
                    analyzeCalls, outcomeOf, passLog, lastPass >>

\* previousScores.find(s => s.teamId === teamId), as a set of at most one
Find(scores, teamId) ==
    LET hits == { i \in 1..Len(scores) : scores[i].teamId = teamId }
    IN  IF hits = {} THEN {}
        ELSE { scores[CHOOSE i \in hits : \A j \in hits : i <= j] }

\* the commentary loop, one iteration, and the answer after the last one
CommentaryStep(llmOk) ==
    /\ pc = "commentary"
    /\ LET newScore == newScores[noteIdx]
           found == Find(previousScores, newScore.teamId)
           rankChange ==
               \E oldScore \in found :
                   /\ oldScore.currentRank # NoRank
                   /\ newScore.currentRank # NoRank
                   /\ newScore.currentRank < oldScore.currentRank
           scoreUpdate ==
               \E oldScore \in found :
                   oldScore.total # newScore.total /\ newScore.total > 0
           own == newScore.commentary # "" /\ newScore.total > 0
           b1 == IF rankChange
                 THEN addCommentary(cachedCommentary,
                          generateHypeCommentary("rank_change", newScore.teamId,
                                                 IF llmOk THEN "text" ELSE "throws", 0))
                 ELSE cachedCommentary
           b2 == IF scoreUpdate
                 THEN addCommentary(b1,
                          generateHypeCommentary("score_update", newScore.teamId,
                                                 IF llmOk THEN "text" ELSE "throws", 0))
                 ELSE b1
           b3 == IF own
                 THEN addCommentary(b2, [ kind |-> "team", team |-> newScore.teamId,
                                          text |-> newScore.commentary ])
                 ELSE b2
           log == [ passLog EXCEPT
                      !.rankChanges = IF rankChange THEN @ \cup {newScore.teamId} ELSE @,
                      !.scoreUpdates = IF scoreUpdate THEN @ \cup {newScore.teamId} ELSE @ ]
       IN  /\ cachedCommentary' = b3
           /\ appended' = appended + (IF rankChange THEN 1 ELSE 0)
                                    + (IF scoreUpdate THEN 1 ELSE 0)
                                    + (IF own THEN 1 ELSE 0)
           /\ passLog' = log
           /\ IF noteIdx < Len(newScores)
              THEN /\ noteIdx' = noteIdx + 1
                   /\ UNCHANGED << pc, response, lastPass >>
              ELSE /\ noteIdx' = noteIdx
                   /\ pc' = "idle"
                   /\ response' = [ from |-> "refresh", status |-> 200,
                                    success |-> TRUE, count |-> Len(newScores) ]
                   /\ lastPass' = [ ran |-> TRUE,
                                    clean |-> log.errors = dbErrors,
                                    scores |-> newScores,
                                    endStore |-> store ]
    /\ UNCHANGED << unitVars, shown, parsed, aiScores, leaderboard >>
    /\ UNCHANGED << config, store, request, previousScores, newScores, batchStart,
                    inflight, batchResults, saveIdx, passes, analyses, analyzeCalls, dbErrors,
                    outcomeOf >>

(***************************************************************************)
(* POST /api/analyze and updateScore                                       *)
(***************************************************************************)
\* the fields a request body must carry
RequiredFields == { "teamId", "teamName", "repo", "track" }

\* if (!teamId || !teamName || !repo || !track): answered 400
AnalyzeRejected(body) ==
    /\ pc = "idle"
    /\ body.fields # RequiredFields
    /\ response' = [from |-> "analyze", status |-> 400, success |-> FALSE, count |-> 0]
    /\ request' = NoRequest
    /\ UNCHANGED << unitVars, libVars, config, store, cachedCommentary, pc, previousScores, newScores,
                    batchStart, inflight, batchResults, saveIdx, noteIdx, passes,
                    analyses, analyzeCalls, dbErrors, outcomeOf, passLog, lastPass >>

\* analyzeRepo for the one team, then updateScore: a single upsert whose
\* error is thrown and answered 500
Analyze(body, outcome) ==
    /\ pc = "idle"
    /\ body.fields = RequiredFields
    /\ analyzeCalls < MaxAnalyzeCalls
    /\ analyzeCalls' = analyzeCalls + 1
    /\ request' = NoRequest
    /\ LET score == analyzeRepo(body.teamId, outcome, passes)
       IN  IF IsThrown(score)
           THEN /\ response' = FailedResponse("analyze")
                /\ UNCHANGED << store, dbErrors >>
           ELSE \/ /\ store' = Upsert(store, Payload(score))
                   /\ response' = [from |-> "analyze", status |-> 200,
                                    success |-> TRUE, count |-> 1]
                   /\ UNCHANGED dbErrors
                \/ /\ dbErrors < MaxDbErrors
                   /\ dbErrors' = dbErrors + 1
                   /\ response' = FailedResponse("analyze")
                   /\ UNCHANGED store
    /\ UNCHANGED << unitVars, libVars, config, cachedCommentary, pc, previousScores, newScores,
                    batchStart, inflight, batchResults, saveIdx, noteIdx, passes,
                    analyses, outcomeOf, passLog, lastPass >>

Next ==
    \/ \E m \in Methods, h \in AuthHeaders : RefreshRejected(m, h)
    \/ \E m \in Methods, h \in AuthHeaders : RefreshAccepted(m, h)
    \/ ReadPrevious
    \/ StartBatch
    \/ \E k \in 1..Len(teams), o \in OutcomesFor(teams) : CompleteAnalysis(k, o)
    \/ FinishBatch
    \/ SaveRow
    \/ \E ok \in BOOLEAN : CommentaryStep(ok)
    \/ \E b \in Bodies : AnalyzeRejected(b)
    \/ \E b \in Bodies, o \in Outcomes : Analyze(b, o)

Spec == Init /\ [][Next]_vars

(***************************************************************************)
(* The refresh pipeline at rest, for the specifications of the parts that  *)
(* run without it.                                                         *)
(***************************************************************************)
refreshVars == << config, store, pc, request, response, previousScores, newScores,
                  batchStart, inflight, batchResults, saveIdx, noteIdx, passes,
                  analyses, analyzeCalls, dbErrors, outcomeOf, passLog, lastPass >>

AtRestDeployment ==
    [ production |-> TRUE, cronSecret |-> TRUE, variant |-> "route", roster |-> << 1 >> ]

\* no pass has run and none is running
PipelineAtRest ==
    /\ config = AtRestDeployment
    /\ pc = "idle"
    /\ request = NoRequest
    /\ response = NoResponse
    /\ previousScores = << >>
    /\ newScores = << >>
    /\ batchStart = 0
    /\ inflight = {}
    /\ batchResults = << >>
    /\ saveIdx = 1
    /\ noteIdx = 1
    /\ passes = 0
    /\ analyses = 0
    /\ analyzeCalls = 0
    /\ dbErrors = 0
    /\ outcomeOf = << >>
    /\ passLog = NoLog
    /\ lastPass = NoPass

RefreshAtRest == PipelineAtRest /\ store = {}

(***************************************************************************)
(* lib/storage.ts: the commentary buffer on its own.  The messages are     *)
(* numbered by the call that appends them.                                 *)
(***************************************************************************)
\* the limits getCommentary is called with: 5 by the leaderboard, 10 by default
Limits == { 5, 10 }

InitCommentary ==
    /\ RefreshAtRest
    /\ cachedCommentary = << >>
    /\ appended = 0
    /\ shown = << >>
    /\ parsed = NoReply
    /\ aiScores = NoScores
    /\ leaderboard = NoLeaderboard
    /\ UnitsAtRestExcept({})

AddCommentary ==
    /\ appended < MaxAppends
    /\ cachedCommentary' = addCommentary(cachedCommentary, appended + 1)
    /\ appended' = appended + 1
    /\ UNCHANGED << unitVars, refreshVars, shown, parsed, aiScores, leaderboard >>

GetCommentary(limit) ==
    /\ shown' = getCommentary(cachedCommentary, limit)
    /\ UNCHANGED << unitVars, refreshVars, cachedCommentary, appended, parsed, aiScores, leaderboard >>

ClearCache ==
    /\ cachedCommentary' = << >>
    /\ appended' = 0
    /\ UNCHANGED << unitVars, refreshVars, shown, parsed, aiScores, leaderboard >>

NextCommentary ==
    \/ AddCommentary
    \/ \E limit \in Limits : GetCommentary(limit)
    \/ ClearCache

SpecCommentary == InitCommentary /\ [][NextCommentary]_vars

(***************************************************************************)
(* GET /api/leaderboard, in its three variants: "storage" reads through    *)
(* lib/storage.ts, "supabase" queries the table itself, "file" reads       *)
(* .data/scores.json.                                                      *)
(***************************************************************************)
\* contents of the scores table: the rows refresh passes over teams 1 and 2
\* can have written
TableContents ==
    LET RowsOf(t) == { Payload(analyzeRepo(t, o, 1)) : o \in SmallRosterOutcomes }
    IN  { {} } \cup { { r } : r \in RowsOf(1) }
               \cup { { r, q } : r \in RowsOf(1), q \in RowsOf(2) }

\* states of .data/scores.json: absent, not readable, not JSON, or the list
\* the local analysis script saved
ScoresFiles ==
    { NoFile,
      [ state |-> "unreadable", scores |-> << >> ],
      [ state |-> "unparsable", scores |-> << >> ],
      [ state |-> "ok", scores |-> << >> ],
      [ state |-> "ok", scores |-> << [teamId |-> 2, total |-> 11],
                                      [teamId |-> 1, total |-> 9] >> ] }

LeaderboardDeployments ==
    [ variant : { "storage" }, configured : { TRUE }, scoresFile : { NoFile },
      dbError : { FALSE } ]
    \cup [ variant : { "supabase" }, configured : BOOLEAN, scoresFile : { NoFile },
           dbError : { FALSE } ]
    \cup [ variant : { "file" }, configured : { TRUE }, scoresFile : ScoresFiles,
           dbError : { FALSE } ]

InitLeaderboard ==
    /\ PipelineAtRest
    /\ store \in TableContents
    /\ cachedCommentary = << >>
    /\ appended = 0
    /\ shown = << >>
    /\ parsed = NoReply
    /\ aiScores = NoScores
    /\ leaderboard \in LeaderboardDeployments
    /\ UnitsAtRestExcept({})

LeaderboardAnswer(status, success, count) ==
    [ from |-> "leaderboard", status |-> status, success |-> success, count |-> count ]

\* part_009: getScores and getCommentary(5); getScores gives [] on an error
LeaderboardFromStorage(dbError) ==
    /\ leaderboard.variant = "storage"
    /\ \E scores \in (IF dbError THEN { << >> } ELSE getScores(store)) :
          response' = LeaderboardAnswer(200, TRUE, Len(scores))
    /\ shown' = getCommentary(cachedCommentary, 5)

\* part_008: 500 without the database configuration and on a query error
LeaderboardFromSupabase(dbError) ==
    /\ leaderboard.variant = "supabase"
    /\ response' = IF ~leaderboard.configured \/ dbError
                    THEN LeaderboardAnswer(500, FALSE, 0)
                    ELSE LeaderboardAnswer(200, TRUE, Cardinality(store))
    /\ UNCHANGED shown

\* app/api/leaderboard/route.ts: an absent file is an empty list; a failing
\* read or parse ends in the catch block
LeaderboardFromFile ==
    /\ leaderboard.variant = "file"
    /\ response' =
          CASE leaderboard.scoresFile.state = "missing" -> LeaderboardAnswer(200, TRUE, 0)
            [] leaderboard.scoresFile.state = "ok" ->
                  LeaderboardAnswer(200, TRUE, Len(leaderboard.scoresFile.scores))
            [] OTHER -> LeaderboardAnswer(500, FALSE, 0)
    /\ UNCHANGED shown

LeaderboardGet(dbError) ==
    /\ \/ LeaderboardFromStorage(dbError)
       \/ LeaderboardFromSupabase(dbError)
       \/ LeaderboardFromFile
    /\ leaderboard' = [ leaderboard EXCEPT
                          !.dbError = dbError /\ leaderboard.variant # "file"
                                              /\ leaderboard.configured ]
    /\ UNCHANGED << config, store, cachedCommentary, pc, request, previousScores,
                    newScores, batchStart, inflight, batchResults, saveIdx, noteIdx,
                    passes, analyses, analyzeCalls, dbErrors, outcomeOf, passLog,
                    lastPass, appended, parsed, aiScores, unitVars >>

NextLeaderboard == \E dbError \in BOOLEAN : LeaderboardGet(dbError)

SpecLeaderboard == InitLeaderboard /\ [][NextLeaderboard]_vars

(***************************************************************************)
(* The announcement of an event in handleRefresh: generateHypeCommentary   *)
(* and then addCommentary of what it returned.                             *)
(***************************************************************************)
HypeEvents == { "rank_change", "score_update", "new_commits", "general" }
LlmOutcomes == { "text", "no_text", "throws" }
HypeTeams == { 1, 2 }

InitHype ==
    /\ RefreshAtRest
    /\ cachedCommentary = << >>
    /\ appended = 0
    /\ shown = << >>
    /\ parsed = NoReply
    /\ aiScores = NoScores
    /\ leaderboard = NoLeaderboard
    /\ UnitsAtRestExcept({})

\* const commentary = await generateHypeCommentary(...); await
\* addCommentary(commentary); an exception ends the pass in its catch block
Announce(event, teamId, llm, random) ==
    /\ appended < MaxEvents
    /\ response = NoResponse
    /\ LET commentary == generateHypeCommentary(event, teamId, llm, random)
       IN  /\ hypeCall' = [ event |-> event, team |-> teamId, llm |-> llm,
                            random |-> random, result |-> commentary ]
           /\ IF IsThrown(commentary)
              THEN /\ response' = FailedResponse("refresh")
                   /\ UNCHANGED << cachedCommentary, appended >>
              ELSE /\ cachedCommentary' = addCommentary(cachedCommentary, commentary)
                   /\ appended' = appended + 1
                   /\ UNCHANGED response
    /\ UnitsUnchangedExcept({ "hypeCall" })
    /\ UNCHANGED << config, store, pc, request, previousScores, newScores, batchStart,
                    inflight, batchResults, saveIdx, noteIdx, passes, analyses,
                    analyzeCalls, dbErrors, outcomeOf, passLog, lastPass, shown,
                    parsed, aiScores, leaderboard >>

NextHype ==
    \E event \in HypeEvents, teamId \in HypeTeams, llm \in LlmOutcomes, random \in 0..3 :
        Announce(event, teamId, llm, random)

SpecHype == InitHype /\ [][NextHype]_vars

(***************************************************************************)
(* POST /api/analyze with its validation, in its two variants: "simple"    *)
(* checks that the four fields are present, "validated" also checks their  *)
(* types and the repository URL.  One request for team 7 is answered; the  *)
(* table holds the row of team 1.                                          *)
(***************************************************************************)
\* request bodies, by what request.json() gives and, for an object, by what
\* each field carries ("missing" stands for every falsy value; "github" is
\* a string containing github.com, "other" a string that does not)
AnalyzeBodies ==
    [ json : { "object" }, teamId : { "missing", "string", "number" },
      teamName : { "missing", "string", "number" },
      repo : { "missing", "github", "other", "number" },
      track : { "missing", "number", "string" } ]
    \cup { [ NoBody EXCEPT !.json = "invalid" ], [ NoBody EXCEPT !.json = "null" ] }

AnalyzeRequests == [ variant : { "simple", "validated" }, body : AnalyzeBodies ]

\* the row of team 1 that the table holds before the request
RowOfTeamOne == Payload(analyzeRepo(1, [fetch |-> "ok", ai |-> "A"], 0))

InitAnalyze ==
    /\ PipelineAtRest
    /\ store = { RowOfTeamOne }
    /\ cachedCommentary = << >>
    /\ appended = 0
    /\ shown = << >>
    /\ parsed = NoReply
    /\ aiScores = NoScores
    /\ leaderboard = NoLeaderboard
    /\ UnitsAtRestExcept({ "analyzeReq" })
    /\ analyzeReq \in AnalyzeRequests

AnalyzeAnswer(status) ==
    [ from |-> "analyze", status |-> status, success |-> status = 200,
      count |-> IF status = 200 THEN 1 ELSE 0 ]

\* if (!teamId || !teamName || !repo || !track)
MissingFields(body) ==
    { f \in RequiredFields : body[f] = "missing" }

\* the checks of the validated variant after the presence check
TypesAndUrlOk(body) ==
    /\ body.teamId = "string"
    /\ body.teamName = "string"
    /\ body.repo \in { "github", "other" }
    /\ body.track = "number"
    /\ body.repo = "github"

\* what the handler answers before any analysis, 0 when it goes on to
\* analyse: a body that is not JSON throws in request.json(), which the
\* validated variant catches (400) and the simple one does not (500);
\* destructuring null throws in both (500)
AnswerBeforeAnalysis(variant, body) ==
    CASE body.json = "invalid" -> IF variant = "validated" THEN 400 ELSE 500
      [] body.json = "null" -> 500
      [] MissingFields(body) # {} -> 400
      [] variant = "validated" /\ ~TypesAndUrlOk(body) -> 400
      [] OTHER -> 0

\* analyzeRepo and updateScore for the team of the body.  A repo value that
\* is no GitHub URL makes parseGitHubUrl throw inside fetchRepoInfo.  The
\* upsert may report an error, and teamIdToUUID of a value that is not a
\* string may throw: both end in the answer 500 without a write.
AnalyzePost(outcome, saveFails) ==
    /\ response = NoResponse
    /\ LET variant == analyzeReq.variant
           body == analyzeReq.body
           early == AnswerBeforeAnalysis(variant, body)
           met == IF body.repo = "github" THEN outcome ELSE OutThrow
           score == analyzeRepo(7, met, passes)
       IN  IF early # 0
           THEN /\ response' = AnalyzeAnswer(early)
                /\ UNCHANGED << store, analyzeCalls, dbErrors >>
           ELSE /\ analyzeCalls' = analyzeCalls + 1
                /\ IF saveFails
                   THEN /\ response' = AnalyzeAnswer(500)
                        /\ dbErrors' = dbErrors + 1
                        /\ UNCHANGED store
                   ELSE /\ response' = AnalyzeAnswer(200)
                        /\ store' = Upsert(store, Payload(score))
                        /\ UNCHANGED dbErrors
    /\ UNCHANGED << config, cachedCommentary, pc, request, previousScores, newScores,
                    batchStart, inflight, batchResults, saveIdx, noteIdx, passes,
                    analyses, outcomeOf, passLog, lastPass, libVars, unitVars >>

NextAnalyze == \E o \in Outcomes, saveFails \in BOOLEAN : AnalyzePost(o, saveFails)

SpecAnalyze == InitAnalyze /\ [][NextAnalyze]_vars

(***************************************************************************)
(* The photo-booth page.  queueTable is the table 'queue' in the order of   *)
(* created_at: the status of each item, an item's id being its position.    *)
(* boothClients holds one record per open page: the mode, the queue state   *)
(* (the rows of the latest fetch), the items with a display timer running,  *)
(* and whether a fetchQueue call is due (after mounting, after a real-time  *)
(* event, after an own timer).  The updates of processQueue take effect in  *)
(* the step that runs the effect.                                          *)
(***************************************************************************)
NewClient ==
    [ mode |-> "queue", queue |-> << >>, timers |-> {}, fetching |-> TRUE, reloads |-> 0 ]

\* .from('queue').select('*').in('status', ['waiting', 'displaying'])
\*  .order('created_at', { ascending: true })
SelectQueue(table) ==
    SelectSeq([ i \in 1..Len(table) |-> [ id |-> i, status |-> table[i] ] ],
              LAMBDA q : q.status \in { "waiting", "displaying" })

\* queue.find(q => q.status === status), as a set of at most one row
FindStatus(queue, status) ==
    LET at == { k \in 1..Len(queue) : queue[k].status = status }
    IN  IF at = {} THEN {} ELSE { queue[CHOOSE k \in at : \A j \in at : k <= j] }

\* the real-time event of a change of the table: every open page calls
\* fetchQueue
Notify(clients) ==
    [ c \in DOMAIN clients |-> [ clients[c] EXCEPT !.fetching = TRUE ] ]

\* The process-queue effect of a page on its queue state: nothing outside
\* display mode or while a row of the queue state is 'displaying'; otherwise
\* the first waiting row is set to 'displaying' by id and its timer started.
ProcessQueue(client, table) ==
    LET showing == FindStatus(client.queue, "displaying")
        waiting == FindStatus(client.queue, "waiting")
    IN  IF client.mode # "display" \/ showing # {} \/ waiting = {}
        THEN [ table |-> table, client |-> client, updated |-> FALSE ]
        ELSE LET id == (CHOOSE q \in waiting : TRUE).id
             IN  [ table |-> [ table EXCEPT ![id] = "displaying" ],
                   client |-> [ client EXCEPT !.timers = @ \cup { id } ],
                   updated |-> TRUE ]

\* the state after the effect has run for page c
AfterEffect(c, client) ==
    LET r == ProcessQueue(client, queueTable)
        clients == [ boothClients EXCEPT ![c] = r.client ]
    IN  /\ queueTable' = r.table
        /\ boothClients' = IF r.updated THEN Notify(clients) ELSE clients

BoothAtRest ==
    /\ RefreshAtRest
    /\ cachedCommentary = << >>
    /\ appended = 0
    /\ shown = << >>
    /\ parsed = NoReply
    /\ aiScores = NoScores
    /\ leaderboard = NoLeaderboard
    /\ UnitsAtRestExcept({ "queueTable", "boothClients" })
    /\ queueTable = << >>

InitBooth ==
    /\ BoothAtRest
    /\ boothClients = [ c \in 1..2 |-> NewClient ]

\* joinQueue: insert({ team_name, status: 'waiting' })
JoinQueue ==
    /\ Len(queueTable) < MaxQueue
    /\ queueTable' = Append(queueTable, "waiting")
    /\ boothClients' = Notify(boothClients)

\* fetchQueue and setQueue(data), then the effect on the new queue state
FetchQueue(c) ==
    /\ boothClients[c].fetching
    /\ AfterEffect(c, [ boothClients[c] EXCEPT !.queue = SelectQueue(queueTable),
                                               !.fetching = FALSE ])

\* handleModeChange, then the effect on the queue state the page holds
HandleModeChange(c, newMode) ==
    /\ boothClients[c].mode # newMode
    /\ AfterEffect(c, [ boothClients[c] EXCEPT !.mode = newMode ])

\* the timer of processQueue: update({ status: 'done' }).eq('id', id), then
\* fetchQueue
DisplayTimer(c, id) ==
    /\ id \in boothClients[c].timers
    /\ queueTable' = [ queueTable EXCEPT ![id] = "done" ]
    /\ boothClients' = Notify([ boothClients EXCEPT ![c].timers = @ \ { id } ])

\* the page is loaded again: state and timers are gone, the page mounts in
\* queue mode and fetches
Reload(c) ==
    /\ boothClients[c].reloads < MaxReloads
    /\ boothClients' = [ boothClients EXCEPT
                           ![c] = [ NewClient EXCEPT !.reloads = boothClients[c].reloads + 1 ] ]
    /\ UNCHANGED queueTable

NextBooth ==
    /\ \/ JoinQueue
       \/ \E c \in DOMAIN boothClients : FetchQueue(c)
       \/ \E c \in DOMAIN boothClients, newMode \in { "queue", "display" } :
              HandleModeChange(c, newMode)
       \/ \E c \in DOMAIN boothClients, id \in 1..MaxQueue : DisplayTimer(c, id)
       \/ \E c \in DOMAIN boothClients : Reload(c)
    /\ UnitsUnchangedExcept({ "queueTable", "boothClients" })
    /\ UNCHANGED << refreshVars, libVars, cachedCommentary >>

SpecBooth == InitBooth /\ [][NextBooth]_vars

\* One page: every fetch that is due is made and every timer that runs
\* fires; joining, changing mode and reloading are up to the users.
InitBoothOnePage ==
    /\ BoothAtRest
    /\ boothClients = [ c \in 1..1 |-> NewClient ]

SpecBoothFair ==
    /\ InitBoothOnePage
    /\ [][NextBooth]_vars
    /\ WF_vars(FetchQueue(1) /\ UnitsUnchangedExcept({ "queueTable", "boothClients" })
                             /\ UNCHANGED << refreshVars, libVars, cachedCommentary >>)
    /\ \A id \in 1..MaxQueue :
          WF_vars(DisplayTimer(1, id) /\ UnitsUnchangedExcept({ "queueTable", "boothClients" })
                                     /\ UNCHANGED << refreshVars, libVars, cachedCommentary >>)

(***************************************************************************)
(* estimateLinesOfCode on its own: a file tree and a byte total, then the  *)
(* same tree with a larger byte total.                                     *)
(***************************************************************************)
\* the lists of at most n distinct paths: a tree names each of its files once
RECURSIVE TreesOver(_, _)
TreesOver(paths, n) ==
    IF n = 0
    THEN { << >> }
    ELSE LET shorter == TreesOver(paths, n - 1)
         IN  shorter \cup
             UNION { { Append(tree, path) :
                         path \in { p \in paths : \A i \in 1..Len(tree) : tree[i] # p } } :
                     tree \in shorter }

EstimatePaths ==
    { path \in FilePaths : path.dir \in { "", "src/" } }

EstimateTrees == TreesOver(EstimatePaths, MaxEstimateFiles)

ByteSteps == { 1, 50 }

InitEstimate ==
    /\ RefreshAtRest
    /\ cachedCommentary = << >>
    /\ appended = 0
    /\ shown = << >>
    /\ parsed = NoReply
    /\ aiScores = NoScores
    /\ leaderboard = NoLeaderboard
    /\ UnitsAtRestExcept({ "sizing" })
    /\ sizing \in [ fileTree : EstimateTrees, totalSize : 0..MaxBytes,
                     estimated : { FALSE }, lines : { 0 }, grown : { FALSE },
                     smaller : { 0 }, before : { 0 } ]

\* const linesOfCode = estimateLinesOfCode(repoInfo.fileTree, repoInfo.totalSize)
Estimate ==
    /\ ~sizing.estimated
    /\ sizing' = [ sizing EXCEPT !.estimated = TRUE,
                                 !.lines = estimateTree(sizing.fileTree, sizing.totalSize) ]

\* the same file tree estimated again after the repository has grown
EstimateLarger(step) ==
    /\ sizing.estimated
    /\ sizing.totalSize + step <= MaxBytes
    /\ sizing' = [ sizing EXCEPT !.totalSize = @ + step,
                                 !.lines = estimateTree(sizing.fileTree, sizing.totalSize + step),
                                 !.grown = TRUE,
                                 !.smaller = sizing.totalSize,
                                 !.before = sizing.lines ]

NextEstimate ==
    /\ \/ Estimate
       \/ \E step \in ByteSteps : EstimateLarger(step)
    /\ UnitsUnchangedExcept({ "sizing" })
    /\ UNCHANGED << refreshVars, libVars, cachedCommentary >>

SpecEstimate == InitEstimate /\ [][NextEstimate]_vars

(***************************************************************************)
(* fetchKeyFiles on its own: one call on a file tree, any one of the       *)
(* content fetches may fail.                                               *)
(***************************************************************************)
FileTrees == TreesOver(FilePaths, MaxTreeLen)

InitKeyFiles ==
    /\ RefreshAtRest
    /\ cachedCommentary = << >>
    /\ appended = 0
    /\ shown = << >>
    /\ parsed = NoReply
    /\ aiScores = NoScores
    /\ leaderboard = NoLeaderboard
    /\ UnitsAtRestExcept({ "keyFiles" })
    /\ keyFiles \in [ fileTree : FileTrees, called : { FALSE }, failing : { {} },
                       selected : { << >> }, fetched : { << >> } ]

FetchKeyFiles(failing) ==
    /\ ~keyFiles.called
    /\ keyFiles' = [ keyFiles EXCEPT !.called = TRUE,
                                     !.failing = failing,
                                     !.selected = keyFilePaths(keyFiles.fileTree),
                                     !.fetched = fetchKeyFiles(keyFiles.fileTree, failing) ]
    /\ UnitsUnchangedExcept({ "keyFiles" })
    /\ UNCHANGED << refreshVars, libVars, cachedCommentary >>

NextKeyFiles ==
    \E failing \in { {} } \cup { { path } : path \in FilePaths } : FetchKeyFiles(failing)

SpecKeyFiles == InitKeyFiles /\ [][NextKeyFiles]_vars

(***************************************************************************)
(* lib/storage.ts: saveScores called twice on the same list of records.    *)
(***************************************************************************)
\* the lists handed to saveScores: the records of two or three teams, each
\* with any outcome of its analysis
SavedRosters == { << 1, 2 >>, << 1, 2, 3 >> }
RecordLists ==
    UNION { { [ k \in 1..Len(r) |-> analyzeRepo(r[k], o[k], 0) ] :
                o \in [ 1..Len(r) -> Outcomes ] } : r \in SavedRosters }

InitStorage ==
    /\ config = AtRestDeployment
    /\ store = {}
    /\ cachedCommentary = << >>
    /\ pc = "save"
    /\ request = NoRequest
    /\ response = NoResponse
    /\ previousScores = << >>
    /\ newScores \in RecordLists
    /\ batchStart = 0
    /\ inflight = {}
    /\ batchResults = << >>
    /\ saveIdx = 1
    /\ noteIdx = 1
    /\ passes = 0
    /\ analyses = 0
    /\ analyzeCalls = 0
    /\ dbErrors = 0
    /\ outcomeOf = << >>
    /\ passLog = NoLog
    /\ lastPass = NoPass
    /\ appended = 0
    /\ shown = << >>
    /\ parsed = NoReply
    /\ aiScores = NoScores
    /\ leaderboard = NoLeaderboard
    /\ UnitsAtRestExcept({})

\* the first call has returned and saveScores is called again with the same
\* list; lastPass keeps what the first call left
SaveScoresAgain ==
    /\ pc = "commentary"
    /\ ~lastPass.ran
    /\ lastPass' = [ ran |-> TRUE, clean |-> dbErrors = 0, scores |-> newScores,
                     endStore |-> store ]
    /\ pc' = "save"
    /\ saveIdx' = 1
    /\ UNCHANGED << unitVars, libVars, config, store, cachedCommentary, request, response,
                    previousScores, newScores, batchStart, inflight, batchResults,
                    noteIdx, passes, analyses, analyzeCalls, dbErrors, outcomeOf,
                    passLog >>

NextStorage ==
    \/ SaveRow
    \/ SaveScoresAgain

SpecStorage == InitStorage /\ [][NextStorage]_vars

(***************************************************************************)
(* saveScores writing a list record by record into a table that may hold   *)
(* earlier rows, and one GET /api/leaderboard that reads the table at any   *)
(* moment of the write or after it.                                        *)
(***************************************************************************)
\* a team that was stored earlier and is in no roster now
FormerTeam == 9

PriorStores ==
    { {},
      { RowOfTeamOne },
      { Payload(analyzeRepo(FormerTeam, [fetch |-> "ok", ai |-> "B"], 0)) } }

InitRanks ==
    /\ config = AtRestDeployment
    /\ store \in PriorStores
    /\ cachedCommentary = << >>
    /\ pc = "save"
    /\ request = NoRequest
    /\ response = NoResponse
    /\ previousScores = << >>
    /\ newScores \in RecordLists
    /\ batchStart = 0
    /\ inflight = {}
    /\ batchResults = << >>
    /\ saveIdx = 1
    /\ noteIdx = 1
    /\ passes = 0
    /\ analyses = 0
    /\ analyzeCalls = 0
    /\ dbErrors = 0
    /\ outcomeOf = << >>
    /\ passLog = NoLog
    /\ lastPass = NoPass
    /\ appended = 0
    /\ shown = << >>
    /\ parsed = NoReply
    /\ aiScores = NoScores
    /\ leaderboard = NoLeaderboard
    /\ UnitsAtRestExcept({})

\* GET: const [scores, commentary] = await Promise.all([getScores(), ...]);
\* written is the number of upsert calls of the running saveScores that have
\* returned when the table is read
ReadLeaderboard ==
    /\ ~boardRead.read
    /\ \E scores \in getScores(store) :
          boardRead' = [ read |-> TRUE,
                         written |-> IF pc = "save" THEN saveIdx - 1 ELSE Len(newScores),
                         of |-> Len(newScores),
                         scores |-> scores ]
    /\ UnitsUnchangedExcept({ "boardRead" })
    /\ UNCHANGED << refreshVars, libVars, cachedCommentary >>

NextRanks ==
    \/ SaveRow
    \/ ReadLeaderboard

SpecRanks == InitRanks /\ [][NextRanks]_vars

(***************************************************************************)
(* lib/analyzer.ts: getAIScores on a parsed reply, on its own.             *)
(***************************************************************************)
\* values a sub-score field of a reply may carry: negative, zero, inside
\* the scale, above it
ScoreValues == { -3, 0, 1, 3, 5, 9 }
ScoreFields == { "problem", "solution", "execution" }

\* the parsed replies: every sub-score field absent or carrying a value
ParsedReplies ==
    UNION { [ present -> ScoreValues ] : present \in SUBSET ScoreFields }

InitScores ==
    /\ RefreshAtRest
    /\ cachedCommentary = << >>
    /\ appended = 0
    /\ shown = << >>
    /\ parsed \in ParsedReplies
    /\ aiScores = NoScores
    /\ leaderboard = NoLeaderboard
    /\ UnitsAtRestExcept({})

\* the return statement of getAIScores
ScoreReply ==
    /\ aiScores = NoScores
    /\ aiScores' = getAIScores(parsed)
    /\ UNCHANGED << unitVars, refreshVars, cachedCommentary, appended, shown, parsed, leaderboard >>

NextScores == ScoreReply

SpecScores == InitScores /\ [][NextScores]_vars

(***************************************************************************)
(* Properties.                                                             *)
(***************************************************************************)
\* the pass is at a position from which one of its steps can be taken: the
\* guards of ReadPrevious, StartBatch, CompleteAnalysis / FinishBatch, SaveRow
\* and CommentaryStep
PassCanStep ==
    \/ pc = "getScores"
    \/ pc = "loop" /\ batchStart < Len(teams)
    \/ pc = "await" /\ inflight \subseteq Batch(batchStart)
                    /\ DOMAIN batchResults = Batch(batchStart) \ inflight
    \/ pc = "save" /\ saveIdx \in 1..Len(newScores)
    \/ pc = "commentary" /\ noteIdx \in 1..Len(newScores)

\* handleRefresh has returned its answer and nothing has been asked since
PassAnswered == pc = "idle" /\ response.from = "refresh" /\ response.status # 401

\* newScores holds exactly one record per team of the roster, in roster order
OneRecordPerTeam ==
    /\ Len(newScores) = Len(teams)
    /\ \A k \in 1..Len(teams) : newScores[k].teamId = teams[k]

\* the pass made no store call that reported an error
CleanPass == passLog.errors = dbErrors

\* the row of a team in a table content, as a set of at most one
RowOf(rows, teamId) == { r \in rows : r.id = teamIdToUUID(teamId) }

\* C1: a failure while analysing a team never aborts a refresh pass: an
\* accepted pass is always at a position where it can step, it collects one
\* record for every team of the roster, and it answers 200 with a processed
\* count equal to the roster size, whatever the outcomes of the analyses.
C1_RefreshNeverAborts ==
    /\ pc # "idle" => PassCanStep
    /\ pc \in { "save", "commentary" } => OneRecordPerTeam
    /\ PassAnswered =>
          /\ response.status = 200
          /\ response.success
          /\ response.count = Len(teams)
          /\ OneRecordPerTeam

\* a pass over two batches has answered although a fetch of the first batch
\* and a fetch of the second batch threw
C1_Witness ==
    /\ PassAnswered
    /\ Len(teams) > batchSize
    /\ outcomeOf[2] = OutThrow
    /\ outcomeOf[6] = OutThrow
    /\ newScores[2].total = 0
    /\ newScores[3].total > 0

\* C2: every record that analyzeRepo returns and every row the store holds
\* has total = problem + solution + execution.
C2_TotalIsSum ==
    /\ \A k \in 1..Len(newScores) :
          newScores[k].total
             = newScores[k].problem + newScores[k].solution + newScores[k].execution
    /\ \A r \in store : r.total = r.problem + r.solution + r.execution

\* C3: the list a store read returns is ordered by descending total, its
\* currentRank values are 1..N in that order, and it holds one record per
\* stored row.
C3_ReadIsRanked ==
    /\ \A i \in 1..Len(previousScores) :
          /\ previousScores[i].currentRank = i
          /\ i < Len(previousScores) =>
                previousScores[i].total >= previousScores[i + 1].total
    /\ (pc = "loop" /\ batchStart = 0 /\ CleanPass) =>
          /\ Len(previousScores) = Cardinality(store)
          /\ { previousScores[i].teamId : i \in 1..Len(previousScores) }
                = { r.id : r \in store }

\* a read has returned two records with different totals
C3_Witness ==
    /\ pc = "loop"
    /\ Len(previousScores) = 2
    /\ previousScores[1].total > previousScores[2].total

\* two refreshes in immediate succession: the previous pass and this one
\* made no failing store call and nothing was written in between
SecondOfTwoPasses ==
    /\ lastPass.ran
    /\ lastPass.clean
    /\ CleanPass
    /\ passLog.startStore = lastPass.endStore

\* C4: after two consecutive refreshes, each record of the second pass has
\* in previousRank the currentRank its team had after the first pass.
C4_PreviousRankCopied ==
    (pc = "commentary" /\ SecondOfTwoPasses) =>
        \A k \in 1..Len(newScores) :
            newScores[k].previousRank = lastPass.scores[k].currentRank

\* C5: when a pass without store errors has answered, every team that had a
\* row before the pass, whose total changed and is now nonzero, got a
\* score-update commentary event.
C5_ScoreUpdateEmitted ==
    (PassAnswered /\ CleanPass) =>
        \A k \in 1..Len(newScores) :
            (\E r \in RowOf(passLog.startStore, newScores[k].teamId) :
                 r.total # newScores[k].total /\ newScores[k].total > 0)
            => newScores[k].teamId \in passLog.scoreUpdates

\* C6: when a pass without store errors has answered, a rank-change event was
\* appended for a team exactly when its currentRank after the pass is lower
\* than its currentRank in the list read before the pass.
C6_RankChangeExactlyOnImprovement ==
    (PassAnswered /\ CleanPass) =>
        \A k \in 1..Len(newScores) :
            (newScores[k].teamId \in passLog.rankChanges)
            <=> (\E i \in 1..Len(previousScores) :
                    /\ previousScores[i].teamId = teamIdToUUID(newScores[k].teamId)
                    /\ newScores[k].currentRank < previousScores[i].currentRank)

\* records compared on every field but the lastUpdated timestamp
SameScores(a, b) ==
    /\ Len(a) = Len(b)
    /\ \A k \in 1..Len(a) : [ a[k] EXCEPT !.lastUpdated = 0 ] = [ b[k] EXCEPT !.lastUpdated = 0 ]
WithoutTime(rows) == { [ r EXCEPT !.last_updated = 0 ] : r \in rows }

C8_RefreshRequiresToken ==
    (config.production /\ config.cronSecret
       /\ request # NoRequest /\ request.header # "match")
    => (response.status = 401 /\ pc = "idle")

\* C9: a team whose repository metadata call returned 404 gets a record with
\* problem = solution = execution = total = 0.
C9_NotFoundGivesZeroRecord ==
    \A k \in 1..Len(newScores) :
        (k \in DOMAIN outcomeOf /\ outcomeOf[k].fetch = "404")
        => /\ newScores[k].problem = 0
           /\ newScores[k].solution = 0
           /\ newScores[k].execution = 0
           /\ newScores[k].total = 0

\* the fields the round trip must reproduce
RoundTripFields(score) ==
    [ teamId |-> score.teamId, problem |-> score.problem,
      solution |-> score.solution, execution |-> score.execution,
      total |-> score.total, commentary |-> score.commentary ]

\* C10: once saveScores has written every record without a store error,
\* each written record is read back from its row with identical problem,
\* solution, execution, total, commentary and teamId.
C10_RoundTrip ==
    (pc = "commentary" /\ CleanPass) =>
        \A k \in 1..Len(newScores) :
            \E r \in RowOf(store, newScores[k].teamId) :
                RoundTripFields(RowToTeamScore(r, 0)) = RoundTripFields(newScores[k])

\* the record saveScores writes in the iteration it is at
RecordBeingSaved == newScores'[sortedScores(newScores)[saveIdx]]

\* C11: whatever sequence of batch writes (saveScores) and single upserts
\* (updateScore) runs, the table holds one row per row id; a step never
\* removes a row id, changes at most one row, leaves the rows of every other
\* id as they were, and the row it writes carries the values of the record
\* handed to the write.
C11_OneRowPerTeamLatestWins ==
    [][ /\ \A r \in store', q \in store' : r.id = q.id => r = q
        /\ \A r \in store : \E q \in store' : q.id = r.id
        /\ Cardinality(store' \ store) <= 1
        /\ \A r \in store' \ store :
              \A q \in store : q.id # r.id => q \in store'
        /\ pc = "save" =>
              /\ store' \ store \subseteq { Payload(RecordBeingSaved) }
              /\ dbErrors' = dbErrors => Payload(RecordBeingSaved) \in store'
        /\ (pc = "idle" /\ store' # store) =>
              \E b \in Bodies :
                  \E o \in Outcomes :
                      /\ Payload(analyzeRepo(b.teamId, o, passes)) \in store'
                      /\ response'.from = "analyze"
                      /\ response'.status = 200 ]_vars

\* the second pass over two teams has overwritten the row of one team and
\* not yet that of the other, and a single upsert has added a third team
C11_Witness ==
    /\ pc = "save"
    /\ passes = 2
    /\ Cardinality(store) = 3
    /\ \E r \in store, q \in store :
          /\ r.id = teamIdToUUID(teams[1]) /\ q.id = teamIdToUUID(teams[2])
          /\ r.last_updated # q.last_updated
    /\ \E r \in store : r.id = teamIdToUUID(7)

\* C12: after k addCommentary calls on an empty buffer the buffer holds the
\* min(k, 50) most recently appended messages, the most recent first: it
\* never holds more than 50 entries and the entries it lacks are the oldest.
C12_BufferKeepsFiftyNewest ==
    /\ Len(cachedCommentary) = Min(appended, MaxCommentary)
    /\ Len(cachedCommentary) <= MaxCommentary
    /\ \A i \in 1..Len(cachedCommentary) : cachedCommentary[i] = appended - i + 1

\* 60 messages have been appended: the buffer holds messages 60 down to 11
C12_Witness ==
    /\ appended = 60
    /\ Len(cachedCommentary) = 50
    /\ cachedCommentary[1] = 60
    /\ cachedCommentary[50] = 11

\* C13: within a pass at most 5 analyses are in flight; while a batch is in
\* flight every analysis of the earlier batches has completed and no analysis
\* of a later batch has; the analyses of a batch settle in any order and the
\* record list keeps roster order.
C13_BatchesOfFiveInSequence ==
    /\ Cardinality(inflight) <= batchSize
    /\ inflight \subseteq { k \in 1..Len(teams) : batchStart < k /\ k <= batchStart + batchSize }
    /\ pc = "await" =>
          /\ \A j \in 1..batchStart : j \in DOMAIN outcomeOf
          /\ DOMAIN outcomeOf \subseteq 1..(batchStart + batchSize)
          /\ DOMAIN outcomeOf \cap inflight = {}
          /\ Len(newScores) = batchStart
    /\ \A k \in 1..Len(newScores) : newScores[k].teamId = teams[k]

\* the second batch is in flight after the five analyses of the first have
\* settled and their records have been collected in roster order
C13_Witness ==
    /\ pc = "await"
    /\ batchStart = batchSize
    /\ inflight = { 6 }
    /\ DOMAIN outcomeOf = 1..5
    /\ Len(newScores) = 5

\* C14: a refresh that answers success has durably written every record of
\* the pass: a pass in which the upsert of a record failed answers
\* success:false with a 5xx status.
C14_WriteFailurePropagated ==
    (PassAnswered /\ response.success) =>
        \A k \in 1..Len(newScores) : Payload(newScores[k]) \in store

\* the store the leaderboard reads from has failed: the query reported an
\* error, the configuration is missing, or the scores file cannot be read
\* or parsed
StoreFailure ==
    \/ leaderboard.dbError
    \/ ~leaderboard.configured
    \/ leaderboard.scoresFile.state \in { "unreadable", "unparsable" }

\* C15: GET /leaderboard never answers 5xx, and on a store failure it
\* answers 200 with success:false and an empty list.
C15_LeaderboardNeverFails ==
    response.from = "leaderboard" =>
        /\ response.status < 500
        /\ StoreFailure =>
              /\ response.status = 200
              /\ ~response.success
              /\ response.count = 0

\* the read of the previous scores of the latest pass reported an error: the
\* table had rows and the list read is empty
ReadFailed ==
    /\ passes > 0
    /\ pc # "getScores"
    /\ previousScores = << >>
    /\ passLog.startStore # {}

\* C16: a store error on the read of the previous scores gives the empty
\* list and does not end the pass: the pass goes on step by step, answers 200
\* with one record per team, and, no team having a previous record, appends
\* no rank-change and no score-update event.
C16_ReadFailureIsNoData ==
    /\ (ReadFailed /\ pc # "idle") => PassCanStep
    /\ (ReadFailed /\ PassAnswered) =>
          /\ response.status = 200
          /\ response.success
          /\ response.count = Len(teams)
          /\ OneRecordPerTeam
          /\ passLog.rankChanges = {}
          /\ passLog.scoreUpdates = {}

\* a second pass whose read failed has answered with a scored record
C16_Witness ==
    /\ ReadFailed
    /\ PassAnswered
    /\ passes = 2
    /\ response.status = 200
    /\ newScores[1].total > 0

\* the scoring attempt of an analysis failed as a whole after the snapshot
\* had been fetched
ScoringFailed(outcome) == outcome.fetch # "throw" /\ outcome.ai = "fail"

\* the neutral record: 3 / 3 / 3, total 9, the generic commentary, and the
\* lines of code estimated from the snapshot
IsNeutralRecord(score, outcome) ==
    /\ ~IsThrown(score)
    /\ score.problem = 3
    /\ score.solution = 3
    /\ score.execution = 3
    /\ score.total = 9
    /\ score.commentary = "cooking"
    /\ LET repoInfo == fetchRepoInfo(outcome.fetch)
       IN  score.linesOfCode = estimateLinesOfCode(repoInfo.codeFiles,
                                   repoInfo.totalFiles, repoInfo.totalSize)

\* C17: an analysis whose scoring attempt failed as a whole settles, without
\* ending the pass, with the neutral record 3 / 3 / 3, total 9, the generic
\* commentary and the lines-of-code estimate of the snapshot.
C17_ScoringFailureGivesNeutralRecord ==
    /\ \A k \in DOMAIN outcomeOf :
          ScoringFailed(outcomeOf[k]) =>
              /\ response.from = "refresh" => response.status # 500
              /\ pc = "await" =>
                    /\ k \in DOMAIN batchResults
                    /\ IsNeutralRecord(batchResults[k], outcomeOf[k])
              /\ pc # "await" =>
                    /\ k \in 1..Len(newScores)
                    /\ IsNeutralRecord(newScores[k], outcomeOf[k])

\* a pass has answered for a team whose scoring attempt failed: the record
\* is the neutral one, with the lines of code of the snapshot
C17_Witness ==
    /\ PassAnswered
    /\ ScoringFailed(outcomeOf[1])
    /\ newScores[1].total = 9
    /\ newScores[1].linesOfCode = 160

\* C18: each sub-score getAIScores returns for a parsed reply is in 1..5: a
\* value above 5 gives 5, a value below 1, zero included, gives 1, a value
\* inside the scale is kept, and an absent field gives 3.
C18_SubScoresClamped ==
    aiScores # NoScores =>
        \A f \in ScoreFields :
            /\ aiScores[f] \in 1..5
            /\ f \notin DOMAIN parsed => aiScores[f] = 3
            /\ f \in DOMAIN parsed =>
                  /\ parsed[f] > 5 => aiScores[f] = 5
                  /\ parsed[f] < 1 => aiScores[f] = 1
                  /\ parsed[f] \in 1..5 => aiScores[f] = parsed[f]

\* C19: with a roster of one team whose repository is reachable and an
\* empty table, the first refresh gives exactly one record, with total in
\* 3..15 whatever the LLM replied, currentRank 1 and no previousRank.
C19_OneTeamScenario ==
    ( /\ PassAnswered
      /\ Len(teams) = 1
      /\ passes = 1
      /\ passLog.startStore = {}
      /\ outcomeOf[1].fetch = "ok" )
    => /\ Len(newScores) = 1
       /\ newScores[1].total \in 3..15
       /\ newScores[1].currentRank = 1
       /\ newScores[1].previousRank = NoRank

\* C20: while and after saveScores runs a second time on the list it has
\* just written, every record has the currentRank and the previousRank the
\* first call left it with.
C20_SecondWriteKeepsRanks ==
    lastPass.ran =>
        /\ Len(newScores) = Len(lastPass.scores)
        /\ \A k \in 1..Len(newScores) :
              /\ newScores[k].currentRank = lastPass.scores[k].currentRank
              /\ newScores[k].previousRank = lastPass.scores[k].previousRank

\* the second call has returned for three records, two of them tied below
\* the third
C20_Witness ==
    /\ lastPass.ran
    /\ pc = "commentary"
    /\ Len(newScores) = 3
    /\ newScores[1].total = newScores[2].total
    /\ newScores[3].total > newScores[1].total
    /\ newScores[3].currentRank = 1
    /\ newScores[1].currentRank = 2

\* the body passes the validation the claim states
BodyValid(body) ==
    /\ body.json = "object"
    /\ body.teamId = "string"
    /\ body.teamName = "string"
    /\ body.repo = "github"
    /\ body.track = "number"

\* C21: for a body that is a JSON object, POST /analyze answers 400 without
\* an analysis and without a store write when the body fails the validation;
\* for a body that passes it analyses one team and, unless the upsert fails,
\* writes that team's row, leaves the other rows alone and returns the record.
C21_AnalyzeValidates ==
    (response.from = "analyze" /\ analyzeReq.body.json = "object") =>
        IF BodyValid(analyzeReq.body)
        THEN /\ analyzeCalls = 1
             /\ response.status = 200 =>
                   /\ response.count = 1
                   /\ RowOfTeamOne \in store
                   /\ Cardinality(store) = 2
                   /\ \E r \in store : r.id = teamIdToUUID(7)
             /\ response.status # 200 =>
                   /\ response.status = 500
                   /\ dbErrors = 1
                   /\ store = { RowOfTeamOne }
        ELSE /\ response.status = 400
             /\ analyzeCalls = 0
             /\ store = { RowOfTeamOne }

\* C22: generateHypeCommentary returns for every event kind; when the
\* completion call threw or its reply had no text block, what it returns is
\* one of the four canned fallbacks; the pass is not ended and the event is
\* appended to the buffer.
C22_HypeCommentaryNeverFails ==
    hypeCall.event # "none" =>
        /\ ~IsThrown(hypeCall.result)
        /\ response = NoResponse
        /\ Len(cachedCommentary) = appended
        /\ cachedCommentary[1] = hypeCall.result
        /\ hypeCall.result.kind = hypeCall.event
        /\ hypeCall.llm # "text" =>
              hypeCall.result.text \in { fallbacks[i] : i \in 1..4 }

\* the completion call threw for a new-commits event, after an earlier
\* event, and the third fallback was appended
C22_Witness ==
    /\ hypeCall.event = "new_commits"
    /\ hypeCall.llm = "throws"
    /\ appended = 2
    /\ cachedCommentary[1].text = "brewing"

\* the files of a tree that end in a code extension, counted one by one
CountOfCodeFiles(tree) ==
    Cardinality({ i \in 1..Len(tree) : tree[i].ext \in codeExtensions })

\* n is x / y rounded to the nearest integer, a half rounded up
IsRounded(n, x, y) ==
    /\ (2 * n - 1) * y <= 2 * x
    /\ 2 * x < (2 * n + 1) * y

C24_EstimateMonotonicInBytes ==
    sizing.grown =>
        /\ sizing.smaller <= sizing.totalSize
        /\ sizing.before <= sizing.lines

\* a larger byte total that raised the estimate
C24_Witness ==
    /\ sizing.grown
    /\ sizing.smaller < sizing.totalSize
    /\ sizing.before < sizing.lines

\* the position of the first pattern a path matches
PatternRank(path) ==
    CHOOSE i \in 1..Len(priorityPatterns) :
        /\ Test(priorityPatterns[i], path)
        /\ \A j \in 1..(i - 1) : ~Test(priorityPatterns[j], path)

InTree(path, tree) == \E i \in 1..Len(tree) : tree[i] = path

\* C25: key-file selection returns at most 5 paths of the file tree, each
\* matching a priority pattern, in the order of the patterns: a path that
\* matches an earlier pattern stands before, and is kept in preference to, a
\* path that matches only later patterns, whatever their order in the tree.
C25_KeyFilesInPatternOrder ==
    keyFiles.called =>
        /\ Len(keyFiles.fetched) <= 5
        /\ \A i \in 1..Len(keyFiles.fetched) :
              /\ InTree(keyFiles.fetched[i], keyFiles.fileTree)
              /\ MatchesSomePattern(keyFiles.fetched[i])
        /\ \A i, j \in 1..Len(keyFiles.fetched) :
              i < j => PatternRank(keyFiles.fetched[i]) <= PatternRank(keyFiles.fetched[j])
        /\ \A i \in 1..Len(keyFiles.fileTree), k \in 1..Len(keyFiles.selected) :
              LET path == keyFiles.fileTree[i]
              IN  (MatchesSomePattern(path) /\ ~InTree(path, keyFiles.selected))
                      => PatternRank(keyFiles.selected[k]) <= PatternRank(path)

\* C26: ranks are never derived from a table in which only some of the
\* records of a running refresh have been written: a leaderboard read sees
\* the table before the first or after the last record of the write.
C26_RanksFromCompleteWriteOnly ==
    boardRead.read => boardRead.written \in { 0, boardRead.of }

\* C27: on a read made right after the write, getScores gives every team of
\* the written list the currentRank saveScores assigned to it.
C27_ReadRankIsAssignedRank ==
    (boardRead.read /\ boardRead.written = boardRead.of /\ pc = "commentary") =>
        \A k \in 1..Len(newScores), i \in 1..Len(boardRead.scores) :
            boardRead.scores[i].teamId = teamIdToUUID(newScores[k].teamId)
                => boardRead.scores[i].currentRank = newScores[k].currentRank

\* C28: in a refresh pass no commentary event is appended before the write of
\* the new records has returned: every step of a pass up to the last upsert,
\* and so every pass that ends before or during the write, leaves the
\* commentary buffer as it was.
C28_NoCommentaryBeforeWriteReturned ==
    [][ cachedCommentary' # cachedCommentary
            => (pc = "commentary" /\ saveIdx > Len(newScores)) ]_vars

\* a later pass in the middle of its write, the buffer holding the events of
\* the pass before
C28_Witness ==
    /\ pc = "save"
    /\ saveIdx > 1
    /\ passes = 2
    /\ cachedCommentary # << >>

\* the status of the i-th item that joined
StatusOf(i) == IF i <= Len(queueTable) THEN queueTable[i] ELSE "absent"

AllInDisplayMode == \A c \in DOMAIN boothClients : boothClients[c].mode = "display"

\* an item goes from 'waiting' to 'displaying' only when no item that joined
\* before it is still waiting
DisplayedInJoinOrder ==
    [][ \A i \in 1..Len(queueTable) :
           (queueTable[i] = "waiting" /\ queueTable'[i] = "displaying")
               => \A j \in 1..(i - 1) : queueTable[j] # "waiting" ]_vars

\* C29: while the page stays in display mode, every waiting item of the
\* photo-booth queue reaches 'displaying' and then 'done', in join order,
\* also when the page was reloaded or left display mode and came back to it
\* while an item was 'displaying'.
C29_WaitingItemsGetDisplayed ==
    /\ DisplayedInJoinOrder
    /\ (<>[]AllInDisplayMode) =>
           \A i \in 1..MaxQueue :
               [](StatusOf(i) = "waiting" => <>(StatusOf(i) = "done"))

\* C30: at most one item of the photo-booth queue is 'displaying', and the
\* status of an item only moves forward, waiting to displaying to done.
C30_OneDisplayingForwardOnly ==
    /\ [](Cardinality({ i \in 1..Len(queueTable) : queueTable[i] = "displaying" }) <= 1)
    /\ [][ \A i \in 1..Len(queueTable) :
             \/ queueTable'[i] = queueTable[i]
             \/ queueTable[i] = "waiting" /\ queueTable'[i] \in { "displaying", "done" }
             \/ queueTable[i] = "displaying" /\ queueTable'[i] = "done" ]_vars
====
